---- MODULE Spec2Model ----
(***************************************************************************)
(* A model of the chat server of ghkinoo/chat_client:                      *)
(*   src/src/thread_pool.rs  ThreadPool, Worker, Message                   *)
(*   src/src/chat_server.rs  ChatServer::run, handle_room, handle_client   *)
(*                                                                         *)
(* The specifications share the variables.  PoolSpec drives the thread     *)
(* pool alone with opaque jobs (closures that return or panic), from       *)
(* ThreadPool::new to the end of its Drop; FairPoolSpec adds the           *)
(* scheduling of its threads.  Spec is the chat server: the acceptor, the  *)
(* room broadcaster job, one session job per accepted connection, the      *)
(* peers and the ctrl-c handler, all running on the same pool, up to the   *)
(* return of ChatServer::run, where the pool's Drop begins.                *)
(* FairSpec adds the scheduling of the server's threads, and DropSpec      *)
(* follows the server through the pool's Drop.                             *)
(***************************************************************************)
EXTENDS Integers, Sequences, FiniteSets, TLC

VARIABLES
    size,       \* ThreadPool::new(size): number of Workers
    queue,      \* the pool's mpsc channel of Message (NewJob / Terminate)
    worker,     \* worker[w]: its thread's state, the job it runs, what it dequeued
    pool,       \* the ThreadPool value: live, being dropped, dropped
    task,       \* PoolSpec: the state of each opaque job submitted with execute
    sent,       \* history: the tag of every Message sent on the pool channel
    running,    \* chat_server.rs:44 the Arc<AtomicBool>
    signals,    \* history: how many times the ctrl-c handler has run
    acc,        \* ChatServer::run: where the acceptor is, and the stream it holds
    peer,       \* peer[c]: connection c: "none" yet, "open", or "stalled" (the
                \* peer does not read and the socket is not writable)
    nframes,    \* history: how many frames the session of c has read
    faults,     \* history: how many failures the environment has injected
    out,        \* out[c]: the Messages the session has written to its socket
    spc,        \* spc[c]: where handle_client is for connection c
    user,       \* user[c]: handle_client's local `user`
    ring,       \* the Bus: its seats
    tail,       \* the Bus: index of the next seat to write
    rd,         \* rd[c]: the BusReader made for connection c (live, head)
    busLock,    \* the Mutex around the Bus: "free", or "room" while it broadcasts
    inbound,    \* the mpsc channel from the sessions to the room
    rxOpen,     \* the Receiver of that channel exists
    poisoned,   \* the Mutex around the channel's Sender is poisoned
    room,       \* handle_room: where it is, and the message it carries
    pushed,     \* history: every Message sent on the inbound channel, in order
    blog,       \* history: every Message the Bus has accepted, in order
    start,      \* history: start[c] = Len(blog) when rd[c] was made
    budget      \* what the environment does in this run: frames per connection,
                \* failures, stop signals (fixed at Init)

poolVars == <<budget, size, queue, worker, pool, task, sent>>
sigVars == <<running, signals>>
netVars == <<peer, nframes, faults>>
busVars == <<ring, tail, busLock, blog>>
chanVars == <<inbound, rxOpen, poisoned, pushed>>
serverVars == <<sigVars, acc, netVars, out, spc, user, busVars, rd, start, chanVars, room>>

vars == <<poolVars, serverVars>>

(***************************************************************************)
(* Bounds of the model.                                                    *)
(***************************************************************************)
MaxWorkers == 2     \* PoolSpec: ThreadPool::new(size) for size in 1..MaxWorkers
MaxTasks == 3       \* PoolSpec: at most this many execute calls
MaxClients == 2     \* Spec: connections ever made to the listener
MaxAlone == 1       \* FairSpec: connections made when one peer is alone
MaxFrames == 4      \* Spec: frames the first peer sends when it does the talking
MaxReplies == 1     \* Spec: frames any other peer sends, and each peer of a
                    \* run with failures and stop signals
MaxInbound == 1     \* Spec: Messages waiting in the inbound channel at a time
MaxSignals == 2     \* Spec: deliveries of the stop signal
MaxFaults == 1      \* Spec: failures injected by the environment (a reset
                    \* connection, a stalled peer, undecodable bytes, a failing
                    \* accept)

\* Program constants.
PoolSize == 10      \* chat_server.rs:55 ThreadPool::new(10)
BusCap == 4         \* chat_server.rs:59 Bus::new(4)

\* The frames a peer may send: a naming command, a line of chat, a naming
\* command without a name, undecodable bytes.  Talk: the well-formed ones.
Frames == {"/user a", "hi\n", "/user", "#"}
Talk == {"/user a", "hi\n"}

\* the connections of this run
Clients == 1..budget.clients
Workers == 1..size
TaskIds == 1..MaxTasks

(***************************************************************************)
(* thread_pool.rs: enum Message { NewJob(Job), Terminate }                 *)
(***************************************************************************)
NewJob(j) == [tag |-> "NewJob", job |-> j]
Terminate == [tag |-> "Terminate", job |-> <<"none", 0>>]

NoJob == <<"none", 0>>
TaskJob(k) == <<"task", k>>
RoomJob == <<"room", 0>>
ClientJob(c) == <<"client", c>>

\* Worker::new: the thread is spawned and sits in receiver.lock().recv()
NewWorker == [st |-> "idle", job |-> NoJob, terms |-> 0, late |-> 0]

\* The Arc<Mutex<Receiver>> lives as long as one worker thread does.
ReceiverAlive == \E w \in Workers : worker[w].st \in {"idle", "busy"}

\* The process is gone once the main thread has panicked.
ProcessUp == pool.st # "panicked"

(***************************************************************************)
(* thread_pool.rs: Worker::new, the body of the spawned thread.            *)
(* One pass of the loop: receiver.lock().unwrap().recv().unwrap(), then    *)
(* the match.  The mutex is held only inside recv, so whichever idle       *)
(* worker holds it gets the head of the channel.  NewJob(job): the worker  *)
(* calls job().  Terminate: break, the thread ends.                        *)
(***************************************************************************)
\* lines 95-99: the Terminate arm
AfterTerminate(w) == [worker[w] EXCEPT !.st = "exited", !.terms = @ + 1]

\* lines 88-91: the NewJob arm, up to the call of job()
AfterNewJob(w, j) == [worker[w] EXCEPT !.st = "busy", !.job = j]

WorkerRecv(w) ==
    /\ ProcessUp
    /\ worker[w].st = "idle"
    /\ queue # <<>>
    /\ LET msg == Head(queue)
           seen == IF worker[w].terms > 0 THEN worker[w].late + 1 ELSE worker[w].late
           next == IF msg.tag = "NewJob" THEN AfterNewJob(w, msg.job)
                                         ELSE AfterTerminate(w)
       IN  /\ queue' = Tail(queue)
           /\ worker' = [worker EXCEPT ![w] = [next EXCEPT !.late = seen]]
           /\ task' = IF msg.job[1] = "task"
                        THEN [task EXCEPT ![msg.job[2]] = "running"]
                        ELSE task
           /\ room' = IF msg.job = RoomJob THEN [room EXCEPT !.pc = "loop"] ELSE room
           /\ spc' = IF msg.job[1] = "client"
                       THEN [spc EXCEPT ![msg.job[2]] = "loop"]
                       ELSE spc
    /\ UNCHANGED <<budget, size, pool, sent>>
    /\ UNCHANGED <<sigVars, acc, netVars, out, user, busVars, rd, start, chanVars>>

(***************************************************************************)
(* An opaque job (the closure given to execute) returns: the worker prints *)
(* "finished job" and loops back to recv.                                  *)
(***************************************************************************)
\* not the code: the thread leaves its loop after the first job
AfterJobQuits(w) == [worker[w] EXCEPT !.st = "exited", !.job = NoJob]

AfterJob(w) == [worker[w] EXCEPT !.st = "idle", !.job = NoJob]

TaskReturn(w) ==
    /\ ProcessUp
    /\ worker[w].st = "busy"
    /\ worker[w].job[1] = "task"
    /\ task' = [task EXCEPT ![worker[w].job[2]] = "done"]
    /\ worker' = [worker EXCEPT ![w] = AfterJob(w)]
    /\ UNCHANGED <<budget, size, queue, pool, sent>>
    /\ UNCHANGED serverVars

(***************************************************************************)
(* A job panics inside job(): nothing in the worker loop catches the       *)
(* unwind (thread_pool.rs:91), so the worker's thread ends with the panic. *)
(***************************************************************************)
AfterPanic(w) == [worker[w] EXCEPT !.st = "dead", !.job = NoJob]

TaskPanic(w) ==
    /\ ProcessUp
    /\ worker[w].st = "busy"
    /\ worker[w].job[1] = "task"
    /\ task' = [task EXCEPT ![worker[w].job[2]] = "panicked"]
    /\ worker' = [worker EXCEPT ![w] = AfterPanic(w)]
    /\ UNCHANGED <<budget, size, queue, pool, sent>>
    /\ UNCHANGED serverVars

(***************************************************************************)
(* ThreadPool::execute: self.sender.send(NewJob(..)).unwrap().  The send   *)
(* never blocks; it fails, and the unwrap panics in the caller, when no    *)
(* worker thread is left to hold the receiver.                             *)
(***************************************************************************)
PoolSend(msg) ==
    IF ReceiverAlive
      THEN /\ queue' = Append(queue, msg)
           /\ sent' = Append(sent, msg.tag)
           /\ pool' = pool
      ELSE /\ pool' = [pool EXCEPT !.st = "panicked"]
           /\ UNCHANGED <<queue, sent>>

Execute(k) ==
    /\ pool.st = "live"
    /\ task[k] = "none"
    /\ \A j \in TaskIds : j < k => task[j] # "none"
    /\ task' = [task EXCEPT ![k] = IF ReceiverAlive THEN "queued" ELSE "lost"]
    /\ PoolSend(NewJob(TaskJob(k)))
    /\ UNCHANGED <<budget, size, worker>>
    /\ UNCHANGED serverVars

(***************************************************************************)
(* impl Drop for ThreadPool.  First loop (lines 53-55): one                *)
(* send(Terminate).unwrap() per element of self.workers.  Second loop      *)
(* (lines 59-72): worker.thread.take() and join().unwrap() in index order; *)
(* join blocks until that thread has ended and returns Err, on which       *)
(* unwrap panics, when the thread ended by a panic.                        *)
(***************************************************************************)
\* the pool goes out of scope in the thread that owns it
DropBegin ==
    /\ pool.st = "live"
    /\ pool' = [st |-> "sending", i |-> 1]
    /\ UNCHANGED <<budget, size, queue, worker, task, sent>>
    /\ UNCHANGED serverVars

\* line 53: for _ in &mut self.workers
DropSendNext == IF pool.i = size THEN [st |-> "joining", i |-> 1]
                                 ELSE [pool EXCEPT !.i = @ + 1]

DropSend ==
    /\ pool.st = "sending"
    /\ IF ReceiverAlive
         THEN /\ queue' = Append(queue, Terminate)
              /\ sent' = Append(sent, "Terminate")
              /\ pool' = DropSendNext
         ELSE /\ pool' = [pool EXCEPT !.st = "panicked"]
              /\ UNCHANGED <<queue, sent>>
    /\ UNCHANGED <<budget, size, worker, task>>
    /\ UNCHANGED serverVars

\* the first worker, from index i on, whose thread has not ended normally:
\* join returns at once on each thread before it
RECURSIVE JoinStop(_)
JoinStop(i) ==
    IF i <= size /\ worker[i].st = "exited" THEN JoinStop(i + 1) ELSE i

DropJoin ==
    /\ pool.st = "joining"
    /\ worker[pool.i].st \in {"exited", "dead"}
    /\ LET k == JoinStop(pool.i) IN
       pool' = IF k > size THEN [st |-> "done", i |-> 0]
               ELSE IF worker[k].st = "dead" THEN [st |-> "panicked", i |-> k]
               ELSE [pool EXCEPT !.i = k]
    /\ UNCHANGED <<budget, size, queue, worker, task, sent>>
    /\ UNCHANGED serverVars

(***************************************************************************)
(* PoolSpec: ThreadPool::new(size), up to MaxTasks execute calls, Drop.    *)
(***************************************************************************)
NoMsg == [text |-> "", src |-> 0, n |-> 0]

\* The chat server's own data as lines 34-62 of ChatServer::run build it.
ServerFresh ==
    /\ running = TRUE
    /\ signals = 0
    /\ peer = [c \in Clients |-> "none"]
    /\ nframes = [c \in Clients |-> 0]
    /\ faults = 0
    /\ out = [c \in Clients |-> <<>>]
    /\ spc = [c \in Clients |-> "none"]
    /\ user = [c \in Clients |-> ""]
    /\ ring = [i \in 0..BusCap |-> NoMsg]
    /\ tail = 0
    /\ rd = [c \in Clients |-> [live |-> FALSE, head |-> 0]]
    /\ busLock = "free"
    /\ inbound = <<>>
    /\ rxOpen = TRUE
    /\ poisoned = FALSE
    /\ pushed = <<>>
    /\ blog = <<>>
    /\ start = [c \in Clients |-> 0]

\* What the environment may do in one run: how many connections it makes,
\* how many frames each peer sends and which, whether peers close their
\* connection,
\* how many failures it injects and how many stop signals it delivers.
\* Monologue: the first peer talks, the others listen.  Dialogue: the first
\* peer names itself and chats, the others answer.  Hostile: short sessions
\* with failures and stop signals.
Monologue == [clients |-> MaxClients,
              frames |-> [c \in 1..MaxClients |-> IF c = 1 THEN MaxFrames ELSE 0],
              texts |-> Frames, hangup |-> TRUE, faults |-> 0, signals |-> 0]
Dialogue == [clients |-> MaxClients,
             frames |-> [c \in 1..MaxClients |->
                            IF c = 1 THEN MaxReplies + 1 ELSE MaxReplies],
             texts |-> Frames, hangup |-> TRUE, faults |-> 0, signals |-> 0]
Hostile == [clients |-> MaxClients,
            frames |-> [c \in 1..MaxClients |-> MaxReplies],
            texts |-> Frames, hangup |-> TRUE, faults |-> MaxFaults,
            signals |-> MaxSignals]
Budgets == {Monologue, Dialogue, Hostile}

\* Solo: a peer alone that sends enough frames to fill its own Subscription,
\* with failures and stop signals.  Crowd: as many peers as the pool has
\* workers, which connect and then stay silent and connected.
Solo == [clients |-> MaxAlone,
         frames |-> [c \in 1..MaxAlone |-> BusCap + 1],
         texts |-> Talk, hangup |-> TRUE, faults |-> MaxFaults,
         signals |-> MaxSignals]
Crowd == [clients |-> PoolSize,
          frames |-> [c \in 1..PoolSize |-> 0],
          texts |-> Talk, hangup |-> FALSE, faults |-> 0, signals |-> 0]
FairBudgets == {Solo, Crowd}

PoolInit ==
    /\ budget = Hostile
    /\ size \in 1..MaxWorkers
    /\ queue = <<>>
    /\ worker = [w \in 1..size |-> NewWorker]
    /\ pool = [st |-> "live", i |-> 0]
    /\ task = [k \in TaskIds |-> "none"]
    /\ sent = <<>>
    /\ ServerFresh
    /\ acc = [pc |-> "none", c |-> 0]
    /\ room = [pc |-> "none", msg |-> NoMsg]

PoolNext ==
    \/ \E k \in TaskIds : Execute(k)
    \/ \E w \in Workers : WorkerRecv(w)
    \/ \E w \in Workers : TaskReturn(w)
    \/ \E w \in Workers : TaskPanic(w)
    \/ DropBegin
    \/ DropSend
    \/ DropJoin

PoolSpec == PoolInit /\ [][PoolNext]_vars

\* Threads that can run do run: the OS schedules every worker thread and the
\* thread that drops the pool.
PoolFairness ==
    /\ \A w \in 1..MaxWorkers : WF_vars(w \in Workers /\ WorkerRecv(w))
    /\ \A w \in 1..MaxWorkers : WF_vars(w \in Workers /\ (TaskReturn(w) \/ TaskPanic(w)))
    /\ WF_vars(DropSend)
    /\ WF_vars(DropJoin)

FairPoolSpec == PoolSpec /\ PoolFairness

(***************************************************************************)
(* Text.  A frame is the bytes of one read.  BadByte stands for a byte     *)
(* that no UTF-8 text contains (0xFF).                                     *)
(***************************************************************************)
BadByte == "#"

\* String::from_utf8(..): Ok exactly when every byte belongs to valid UTF-8.
Utf8Valid(b) == \A i \in 1..Len(b) : SubSeq(b, i, i) # BadByte

\* char::is_whitespace, on the characters the model uses
IsSpace(ch) == ch \in {" ", "\n", "\r", "\t"}

RECURSIVE TrimStart(_)
TrimStart(s) ==
    IF Len(s) > 0 /\ IsSpace(SubSeq(s, 1, 1)) THEN TrimStart(SubSeq(s, 2, Len(s))) ELSE s

RECURSIVE TrimEnd(_)
TrimEnd(s) ==
    IF Len(s) > 0 /\ IsSpace(SubSeq(s, Len(s), Len(s)))
      THEN TrimEnd(SubSeq(s, 1, Len(s) - 1))
      ELSE s

\* str::trim
Trim(s) == TrimEnd(TrimStart(s))

\* str::starts_with
StartsWith(s, p) == Len(s) >= Len(p) /\ SubSeq(s, 1, Len(p)) = p

\* message["/user".len()..].trim()
NameOf(message) == Trim(SubSeq(message, Len("/user") + 1, Len(message)))

\* format!("{} has joined the room.", user)
JoinText(u) == u \o " has joined the room."
\* format!("{} has left the room.", user)
LeftText(u) == u \o " has left the room."
\* format!("{}: {}", user, message)
ChatText(u, message) == u \o ": " \o message

(***************************************************************************)
(* The bus crate's Bus::new(4): a ring of BusCap + 1 seats, one of them    *)
(* always kept free.  A reader's unread seats are head .. tail - 1.        *)
(***************************************************************************)
BusLen == BusCap + 1
Fence == (tail + 1) % BusLen

\* Number of Messages broadcast and not yet dequeued by reader c
Pending(c) == (tail - rd[c].head + BusLen) % BusLen

\* not the code: a Bus that never waits for its readers
NeverFull == FALSE

\* Bus::broadcast blocks while a live reader has not read the fence seat
BusFull == \E c \in Clients : rd[c].live /\ rd[c].head = Fence

\* BusReader::try_recv is Err when head = tail
ReaderEmpty(c) == rd[c].head = tail

\* the seats reader c has not read yet, oldest first
PendingSeq(c) == [k \in 1..Pending(c) |-> ring[(rd[c].head + k - 1) % BusLen]]

(***************************************************************************)
(* chat_server.rs:49-51  the ctrl-c handler: running.store(false).         *)
(***************************************************************************)
\* not the code: the handler flips the flag
Toggled == ~running

Stored == FALSE

CtrlC ==
    /\ ProcessUp
    /\ signals < budget.signals
    /\ signals' = signals + 1
    /\ running' = Stored
    /\ UNCHANGED poolVars
    /\ UNCHANGED <<acc, netVars, out, spc, user, busVars, rd, start, chanVars, room>>

(***************************************************************************)
(* The peers.  What a peer sends, and its closing or resetting the         *)
(* connection, reach the program only through the session's read and       *)
(* write calls, where they are drawn as inputs.  A peer that stops reading *)
(* makes the socket not writable until it reads again.                     *)
(***************************************************************************)
SessionOver(c) == spc[c] \in {"done", "panicked"}

PeerStall(c) ==
    /\ ProcessUp
    /\ peer[c] = "open"
    /\ ~SessionOver(c)
    /\ faults < budget.faults
    /\ faults' = faults + 1
    /\ peer' = [peer EXCEPT ![c] = "stalled"]
    /\ UNCHANGED poolVars
    /\ UNCHANGED <<sigVars, acc, nframes, out, spc, user, busVars, rd, start, chanVars,
                   room>>

PeerResume(c) ==
    /\ ProcessUp
    /\ peer[c] = "stalled"
    /\ ~SessionOver(c)
    /\ peer' = [peer EXCEPT ![c] = "open"]
    /\ UNCHANGED poolVars
    /\ UNCHANGED <<sigVars, acc, nframes, faults, out, spc, user, busVars, rd, start,
                   chanVars, room>>

(***************************************************************************)
(* ChatServer::run, lines 75-107: the acceptor.                            *)
(***************************************************************************)
\* line 75: while running.load(..); on false the function returns, its locals
\* are dropped and the ThreadPool's Drop starts.
AcceptorLoop ==
    /\ ProcessUp
    /\ acc.pc = "loop"
    /\ IF running
         THEN /\ acc' = [acc EXCEPT !.pc = "wait"]
              /\ pool' = pool
         ELSE /\ acc' = [acc EXCEPT !.pc = "returned"]
              /\ pool' = [st |-> "sending", i |-> 1]
    /\ UNCHANGED <<budget, size, queue, worker, task, sent>>
    /\ UNCHANGED <<sigVars, netVars, out, spc, user, busVars, rd, start, chanVars, room>>

\* the next connection to arrive at the listener
NextClient(c) == peer[c] = "none" /\ \A d \in Clients : d < c => peer[d] # "none"

\* line 77: sources.wait(&mut events) has no timeout: it returns only when the
\* listener is readable, that is when a connection has arrived.  Then lines
\* 82-83: listener.accept() gives its stream.
AcceptorWake(c) ==
    /\ ProcessUp
    /\ acc.pc = "wait"
    /\ NextClient(c)
    /\ peer' = [peer EXCEPT ![c] = "open"]
    /\ acc' = [pc |-> "register", c |-> c]
    /\ UNCHANGED poolVars
    /\ UNCHANGED <<sigVars, nframes, faults, out, spc, user, busVars, rd, start,
                   chanVars, room>>

\* lines 82-83 again, in the inner loop: one more connection is pending
Accept(c) ==
    /\ ProcessUp
    /\ acc.pc = "accept"
    /\ NextClient(c)
    /\ peer' = [peer EXCEPT ![c] = "open"]
    /\ acc' = [pc |-> "register", c |-> c]
    /\ UNCHANGED poolVars
    /\ UNCHANGED <<sigVars, nframes, faults, out, spc, user, busVars, rd, start,
                   chanVars, room>>

\* line 84: accept gives WouldBlock: break to the outer loop
AcceptWouldBlock ==
    /\ ProcessUp
    /\ acc.pc = "accept"
    /\ acc' = [acc EXCEPT !.pc = "loop"]
    /\ UNCHANGED poolVars
    /\ UNCHANGED <<sigVars, netVars, out, spc, user, busVars, rd, start, chanVars, room>>

\* line 85: any other accept error: return, whatever `running` is.
AcceptError ==
    /\ ProcessUp
    /\ acc.pc = "accept"
    /\ faults < budget.faults
    /\ faults' = faults + 1
    /\ acc' = [acc EXCEPT !.pc = "returned"]
    /\ pool' = [st |-> "sending", i |-> 1]
    /\ UNCHANGED <<budget, size, queue, worker, task, sent>>
    /\ UNCHANGED <<sigVars, peer, nframes, out, spc, user, busVars, rd, start,
                   chanVars, room>>

\* not the code: a new reader that starts at the first seat
ReaderAtZero == [live |-> TRUE, head |-> 0]

\* not the code: the connection is given no reader when it is accepted
ReaderUnmade == [live |-> FALSE, head |-> tail]

\* Bus::add_rx: the new reader starts at the current tail
NewReader == [live |-> TRUE, head |-> tail]

\* lines 89-101: room_sender.lock().unwrap().add_rx(), then pool.execute of
\* the handle_client closure, which owns the stream and the reader.
Register ==
    /\ ProcessUp
    /\ acc.pc = "register"
    /\ busLock = "free"
    /\ rd' = [rd EXCEPT ![acc.c] = NewReader]
    /\ start' = [start EXCEPT ![acc.c] = Len(blog)]
    /\ PoolSend(NewJob(ClientJob(acc.c)))
    /\ IF ReceiverAlive
         THEN /\ spc' = [spc EXCEPT ![acc.c] = "queued"]
              /\ acc' = [pc |-> "accept", c |-> 0]
         ELSE /\ spc' = spc
              /\ acc' = [acc EXCEPT !.pc = "returned"]
    /\ UNCHANGED <<budget, size, worker, task>>
    /\ UNCHANGED <<sigVars, netVars, out, user, busVars, chanVars, room>>

(***************************************************************************)
(* ChatServer::handle_room, lines 118-127.                                 *)
(***************************************************************************)
\* the job's closure returns: its worker goes back to recv
WorkerDone(j) ==
    [w \in Workers |-> IF worker[w].job = j THEN AfterJob(w) ELSE worker[w]]

\* the job's closure panics: its worker's thread ends
WorkerPanicked(j) ==
    [w \in Workers |-> IF worker[w].job = j THEN AfterPanic(w) ELSE worker[w]]

\* lines 118-119: while running.load(..), then
\* message_receiver.lock().unwrap().try_recv(); on Err sleep 10 ms and loop.
\* When the load gives false handle_room returns and its arguments are
\* dropped, the inbound Receiver among them.
RoomPoll ==
    /\ ProcessUp
    /\ room.pc = "loop"
    /\ IF ~running
         THEN /\ room' = [room EXCEPT !.pc = "done"]
              /\ rxOpen' = FALSE
              /\ worker' = WorkerDone(RoomJob)
              /\ inbound' = inbound
         ELSE /\ inbound # <<>>
              /\ room' = [pc |-> "bcast", msg |-> Head(inbound)]
              /\ inbound' = Tail(inbound)
              /\ UNCHANGED <<rxOpen, worker>>
    /\ UNCHANGED <<budget, size, queue, pool, task, sent>>
    /\ UNCHANGED <<sigVars, acc, netVars, out, spc, user, busVars, rd, start,
                   poisoned, pushed>>

\* Bus::broadcast once the fence seat is free: write the seat at tail
RingPut(m) == [ring EXCEPT ![tail] = m]

\* line 121: room_sender.lock().unwrap().broadcast(message).  With room in
\* the ring the call returns at once; otherwise it blocks, holding the lock.
RoomBroadcast ==
    /\ ProcessUp
    /\ room.pc = "bcast"
    /\ busLock = "free"
    /\ IF BusFull
         THEN /\ busLock' = "room"
              /\ room' = [room EXCEPT !.pc = "blocked"]
              /\ UNCHANGED <<ring, tail, blog>>
         ELSE /\ ring' = RingPut(room.msg)
              /\ tail' = Fence
              /\ blog' = Append(blog, room.msg)
              /\ room' = [pc |-> "loop", msg |-> NoMsg]
              /\ busLock' = busLock
    /\ UNCHANGED poolVars
    /\ UNCHANGED <<sigVars, acc, netVars, out, spc, user, rd, start, chanVars>>

\* the blocked broadcast returns once every live reader has read the fence seat
RoomUnblock ==
    /\ ProcessUp
    /\ room.pc = "blocked"
    /\ ~BusFull
    /\ ring' = RingPut(room.msg)
    /\ tail' = Fence
    /\ blog' = Append(blog, room.msg)
    /\ room' = [pc |-> "loop", msg |-> NoMsg]
    /\ busLock' = "free"
    /\ UNCHANGED poolVars
    /\ UNCHANGED <<sigVars, acc, netVars, out, spc, user, rd, start, chanVars>>

(***************************************************************************)
(* ChatServer::handle_client, lines 145-200.                               *)
(***************************************************************************)
\* handle_client is over: the closure's stream and BusReader are dropped and
\* the worker that ran it either loops or, on a panic, is gone
SessionEnds(c, how) ==
    /\ spc' = [spc EXCEPT ![c] = how]
    /\ rd' = [rd EXCEPT ![c] = [@ EXCEPT !.live = FALSE]]
    /\ worker' = IF how = "panicked" THEN WorkerPanicked(ClientJob(c))
                                     ELSE WorkerDone(ClientJob(c))

\* line 145: while running.load(..), then line 147: sources.wait(..)
SessionAgain(c) ==
    IF running
      THEN /\ spc' = [spc EXCEPT ![c] = "wait"]
           /\ worker' = worker
      ELSE /\ spc' = [spc EXCEPT ![c] = "done"]
           /\ worker' = WorkerDone(ClientJob(c))

\* the first pass through line 145, when the job starts
SessionLoop(c) ==
    /\ ProcessUp
    /\ spc[c] = "loop"
    /\ SessionAgain(c)
    /\ rd' = [rd EXCEPT ![c] = [@ EXCEPT !.live = running]]
    /\ UNCHANGED <<budget, size, queue, pool, task, sent>>
    /\ UNCHANGED <<sigVars, acc, netVars, out, user, busVars, start, chanVars, room>>

\* A Message: its text, and as history the connection and the number of the
\* frame it was made from (0 for the leave notice)
Msg(c, n, text) == [text |-> text, src |-> c, n |-> n]

\* not the code: chat text is forwarded whether or not the session has a name
OnFrameAnyone(u, bytes) ==
    IF ~Utf8Valid(bytes)
      THEN [user |-> u, send |-> <<>>, next |-> "panicked"]
      ELSE LET message == Trim(bytes) IN
           IF StartsWith(message, "/user")
             THEN [user |-> NameOf(message),
                   send |-> <<JoinText(NameOf(message))>>,
                   next |-> "loop"]
             ELSE [user |-> u, send |-> <<ChatText(u, message)>>, next |-> "loop"]

\* lines 165-183: what one non-empty read leads to.  user: the new value of
\* `user`; send: the texts handed to message_sender.send, in order;
\* next: "loop" to go on, "panicked" when from_utf8(..).unwrap() fails.
OnFrame(u, bytes) ==
    IF ~Utf8Valid(bytes)
      THEN [user |-> u, send |-> <<>>, next |-> "panicked"]
      ELSE LET message == Trim(bytes) IN
           IF StartsWith(message, "/user")
             THEN [user |-> NameOf(message),
                   send |-> <<JoinText(NameOf(message))>>,
                   next |-> "loop"]
             ELSE IF Len(u) > 0
               THEN [user |-> u, send |-> <<ChatText(u, message)>>, next |-> "loop"]
               ELSE [user |-> u, send |-> <<>>, next |-> "loop"]

\* lines 154-163: a zero-length read
OnClose(u) ==
    [user |-> u,
     send |-> IF Len(u) > 0 THEN <<LeftText(u)>> ELSE <<>>,
     next |-> "done"]

\* line 186: Err(_) => return
OnReadError(u) == [user |-> u, send |-> <<>>, next |-> "done"]

\* What a read can return: a frame, 0 bytes (the peer closed), an error
\* (the connection was reset)
Data(f) == [kind |-> "data", bytes |-> f]
Eof == [kind |-> "eof", bytes |-> ""]
ReadErr == [kind |-> "err", bytes |-> ""]
ReadInputs == {Data(f) : f \in Frames} \cup {Eof, ReadErr}

IsFault(in) == in.kind = "err" \/ (in.kind = "data" /\ ~Utf8Valid(in.bytes))

\* line 151: stream.read(&mut buffer) and its arms
OnRead(u, in) ==
    IF in.kind = "err" THEN OnReadError(u)
    ELSE IF in.kind = "eof" THEN OnClose(u)
    ELSE OnFrame(u, in.bytes)

\* message_sender.lock().unwrap().send(..).unwrap(): lock() is Err on a
\* poisoned mutex and send is Err once the Receiver is dropped; each unwrap
\* then panics, the second one with the guard held, which poisons the mutex.
SendFails == poisoned \/ ~rxOpen

\* a wake with event.readable: the first match arm, lines 151-187, then back
\* to line 145
SessionRead(c, in) ==
    /\ ProcessUp
    /\ spc[c] = "wait"
    /\ Len(inbound) < MaxInbound
    /\ in.kind = "data" => nframes[c] < budget.frames[c] /\ in.bytes \in budget.texts
    /\ in.kind = "eof" => budget.hangup
    /\ IsFault(in) => faults < budget.faults
    /\ faults' = IF IsFault(in) THEN faults + 1 ELSE faults
    /\ nframes' = [nframes EXCEPT ![c] = IF in.kind = "data" THEN @ + 1 ELSE @]
    /\ LET r == OnRead(user[c], in)
           n == IF in.kind = "data" THEN nframes[c] + 1 ELSE 0
           fails == r.send # <<>> /\ SendFails
           how == IF fails THEN "panicked" ELSE r.next
       IN  /\ user' = [user EXCEPT ![c] = r.user]
           /\ IF r.send # <<>> /\ ~fails
                THEN /\ inbound' = Append(inbound, Msg(c, n, r.send[1]))
                     /\ pushed' = Append(pushed, Msg(c, n, r.send[1]))
                ELSE UNCHANGED <<inbound, pushed>>
           /\ poisoned' = (poisoned \/ fails)
           /\ IF how = "loop"
                THEN /\ SessionAgain(c)
                     /\ rd' = [rd EXCEPT ![c] = [@ EXCEPT !.live = running]]
                ELSE SessionEnds(c, how)
    /\ UNCHANGED <<budget, size, queue, pool, task, sent>>
    /\ UNCHANGED <<sigVars, acc, peer, out, busVars, start, rxOpen, room>>

\* not the code: try_recv that leaves the head where it is
ReaderStays(c) == rd[c]

\* BusReader::try_recv, Ok: the seat at head, and head moves on
ReaderNext(c) == [rd[c] EXCEPT !.head = (@ + 1) % BusLen]

\* a wake with event.writable and not event.readable: the second match arm,
\* lines 188-196, then back to line 145.  try_recv Ok:
\* stream.write(..).unwrap(), which panics when the write fails (ok is
\* FALSE: the connection was reset); Err: sleep 10 ms.
SessionWrite(c, ok) ==
    /\ ProcessUp
    /\ spc[c] = "wait"
    /\ peer[c] = "open"
    /\ ~ok => (~ReaderEmpty(c) /\ faults < budget.faults)
    /\ faults' = IF ok THEN faults ELSE faults + 1
    /\ IF ReaderEmpty(c)
         THEN /\ SessionAgain(c)
              /\ rd' = [rd EXCEPT ![c] = [@ EXCEPT !.live = running]]
              /\ out' = out
         ELSE IF ~ok
           THEN /\ SessionEnds(c, "panicked")
                /\ out' = out
           ELSE /\ SessionAgain(c)
                /\ rd' = [rd EXCEPT ![c] = [ReaderNext(c) EXCEPT !.live = running]]
                /\ out' = [out EXCEPT ![c] = Append(@, ring[rd[c].head])]
    /\ UNCHANGED <<budget, size, queue, pool, task, sent>>
    /\ UNCHANGED <<sigVars, acc, peer, nframes, user, busVars, start, chanVars, room>>

(***************************************************************************)
(* Spec: the chat server after lines 34-74 of ChatServer::run: the pool of *)
(* PoolSize workers exists and the room job has been submitted to it.  The *)
(* environment of a run is one of Budgets.  When run returns the pool is   *)
(* marked as being dropped; the steps of that Drop are those of PoolSpec.  *)
(***************************************************************************)
ServerInit(B) ==
    /\ budget \in B
    /\ size = PoolSize
    /\ queue = <<NewJob(RoomJob)>>
    /\ sent = <<"NewJob">>
    /\ worker = [w \in 1..PoolSize |-> NewWorker]
    /\ pool = [st |-> "live", i |-> 0]
    /\ task = [k \in TaskIds |-> "none"]
    /\ ServerFresh
    /\ acc = [pc |-> "loop", c |-> 0]
    /\ room = [pc |-> "queued", msg |-> NoMsg]

Init == ServerInit(Budgets)

\* The workers are interchangeable: the idle worker that wins the receiver's
\* mutex is taken to be the one with the lowest index.
FirstIdle(w) == worker[w].st = "idle" /\ \A v \in Workers : v < w => worker[v].st # "idle"

Next ==
    \/ CtrlC
    \/ \E c \in Clients : PeerStall(c)
    \/ \E c \in Clients : PeerResume(c)
    \/ AcceptorLoop
    \/ \E c \in Clients : AcceptorWake(c)
    \/ \E c \in Clients : Accept(c)
    \/ AcceptWouldBlock
    \/ AcceptError
    \/ Register
    \/ \E w \in Workers : FirstIdle(w) /\ WorkerRecv(w)
    \/ RoomPoll
    \/ RoomBroadcast
    \/ RoomUnblock
    \/ \E c \in Clients : SessionLoop(c)
    \/ \E c \in Clients, in \in ReadInputs : SessionRead(c, in)
    \/ \E c \in Clients, ok \in BOOLEAN : SessionWrite(c, ok)

Spec == Init /\ [][Next]_vars

(***************************************************************************)
(* FairSpec: the chat server with its threads scheduled.  A thread that    *)
(* can take a step takes it: the acceptor (once sources.wait has returned, *)
(* accept returns at once), the workers, the room, and a session whose     *)
(* socket is writable (sources.wait returns).  Nothing makes the           *)
(* environment act: no connection, frame, close, failure, signal or        *)
(* resumed peer is ever due.                                               *)
(***************************************************************************)
FairInit == ServerInit(FairBudgets)

Fairness ==
    /\ WF_vars(AcceptorLoop)
    /\ WF_vars(AcceptWouldBlock \/ \E c \in Clients : Accept(c))
    /\ WF_vars(Register)
    /\ WF_vars(\E w \in Workers : FirstIdle(w) /\ WorkerRecv(w))
    /\ WF_vars(RoomPoll)
    /\ WF_vars(RoomBroadcast)
    /\ WF_vars(RoomUnblock)
    /\ \A c \in 1..PoolSize : WF_vars(c \in Clients /\ SessionLoop(c))
    /\ \A c \in 1..PoolSize : WF_vars(c \in Clients /\ SessionWrite(c, TRUE))

FairSpec == FairInit /\ [][Next]_vars /\ Fairness

(***************************************************************************)
(* DropSpec: the chat server up to the end of the ThreadPool's Drop.  When *)
(* ChatServer::run returns, the main thread runs the Drop (the Terminate   *)
(* messages, then the joins) while the workers go on with the jobs they    *)
(* have.  Its environment is Brief: two connections, one well-formed frame *)
(* from the first peer, a failure, stop signals; no peer stalls, and the   *)
(* Bus never fills.                                                        *)
(***************************************************************************)
Brief == [clients |-> MaxClients,
          frames |-> [c \in 1..MaxClients |-> IF c = 1 THEN MaxReplies ELSE 0],
          texts |-> Talk, hangup |-> TRUE, faults |-> MaxFaults,
          signals |-> MaxSignals]

DropInit == ServerInit({Brief})

DropNext ==
    \/ CtrlC
    \/ AcceptorLoop
    \/ \E c \in Clients : AcceptorWake(c)
    \/ \E c \in Clients : Accept(c)
    \/ AcceptWouldBlock
    \/ AcceptError
    \/ Register
    \/ \E w \in Workers : FirstIdle(w) /\ WorkerRecv(w)
    \/ RoomPoll
    \/ RoomBroadcast
    \/ \E c \in Clients : SessionLoop(c)
    \/ \E c \in Clients, in \in ReadInputs : SessionRead(c, in)
    \/ \E c \in Clients, ok \in BOOLEAN : SessionWrite(c, ok)
    \/ DropSend
    \/ DropJoin

DropSpec ==
    DropInit /\ [][DropNext]_vars /\ Fairness /\ WF_vars(DropSend) /\ WF_vars(DropJoin)

(***************************************************************************)
(* Properties of the thread pool, under PoolSpec and FairPoolSpec.         *)
(***************************************************************************)
Submitted == {k \in TaskIds : task[k] # "none"}
Finished == {k \in TaskIds : task[k] = "done"}
Failed == {k \in TaskIds : task[k] \in {"panicked", "lost"}}

\* how many Terminate values have been sent on the pool channel
Terminates == Cardinality({i \in 1..Len(sent) : sent[i] = "Terminate"})

\* Drop has returned, or has ended in a panic
DropOver == pool.st = "done" \/ (pool.st = "panicked" /\ pool.i > 0)

\* C7, first half: when Drop returns, every job that was submitted has run
\* to completion.
C7_Drained == pool.st = "done" => Submitted = Finished

\* C7, second half: once Drop has begun it returns, unless some job did not
\* terminate normally.
C7_Returns == (pool.st = "sending") ~> (pool.st = "done" \/ Failed # {})

\* C7 (pool drain): for jobs that all terminate, submitted before Drop
\* begins, Drop returns, and when it has returned every submitted job has
\* run to completion; in particular with more jobs than workers.
C7_PoolDrain == []C7_Drained /\ C7_Returns

\* C7's case: more jobs than workers were submitted, and Drop has returned
C7_Witness == pool.st = "done" /\ Cardinality(Finished) > size

\* C8 (Terminate apportioning): Drop sends exactly one Terminate per
\* worker, never more, all of them after every NewJob; no worker receives
\* anything after a Terminate; and when Drop is over each worker has
\* consumed exactly one Terminate and none is left in the channel.
C8_Apportioned ==
    /\ Terminates <= size
    /\ \A i, j \in 1..Len(sent) : (i < j /\ sent[i] = "Terminate") => sent[j] = "Terminate"
    /\ \A w \in Workers : worker[w].late = 0 /\ worker[w].terms <= 1
    /\ pool.st = "joining" => Terminates = size
    /\ DropOver => /\ Terminates = size
                   /\ \A w \in Workers : worker[w].terms = 1
                   /\ \A i \in 1..Len(queue) : queue[i].tag # "Terminate"

\* C9 (job failure containment): until shutdown every worker of the pool
\* is alive (waiting for a message or running a job), whatever the jobs it
\* ran did.
C9_Contained ==
    pool.st = "live" => \A w \in Workers : worker[w].st \in {"idle", "busy"}

(***************************************************************************)
(* Properties of the chat server, under Spec.                              *)
(***************************************************************************)
Range(s) == {s[i] : i \in 1..Len(s)}
IsPrefix(s, t) == Len(s) <= Len(t) /\ SubSeq(t, 1, Len(s)) = s
NoDupSeq(s) == \A i, j \in 1..Len(s) : i < j => s[i] # s[j]

\* The Messages broadcast since the reader of connection c was made
Segment(c) == SubSeq(blog, start[c] + 1, Len(blog))

\* How many of them the session of c has not dequeued
Undelivered(c) == Len(blog) - start[c] - Len(out[c])

\* The Message the room has dequeued and not yet put in the ring
Carry == IF room.pc \in {"bcast", "blocked"} THEN <<room.msg>> ELSE <<>>

\* The frames that decode, the names and the chat texts they can give
TextFrames == {f \in Frames : Utf8Valid(f)}
Naming(f) == Utf8Valid(f) /\ StartsWith(Trim(f), "/user")
Names == {NameOf(Trim(f)) : f \in {g \in Frames : Naming(g)}} \ {""}
Texts == {Trim(f) : f \in {g \in TextFrames : ~Naming(g)}}
IsChat(m) == \E u \in Names, t \in Texts : m.text = ChatText(u, t)

\* every variable but the count of delivered signals
AllButSignals ==
    <<poolVars, running, acc, netVars, out, spc, user, busVars, rd, start, chanVars, room>>

\* the position of Message m in the order the sessions produced them
PushIndex(m) == CHOOSE i \in 1..Len(pushed) : pushed[i] = m

C1_Inv ==
    \A c \in Clients :
        /\ NoDupSeq(out[c])
        /\ Range(out[c]) \subseteq Range(pushed)
        /\ \A i, j \in 1..Len(out[c]) :
              i < j => PushIndex(out[c][i]) < PushIndex(out[c][j])
        /\ rd[c].live =>
              \A k \in (start[c] + 1)..Len(blog) :
                  IsChat(blog[k]) =>
                      blog[k] \in Range(out[c]) \cup Range(PendingSeq(c))

C1_Step ==
    \A c \in Clients :
        (SessionWrite(c, TRUE) /\ ~ReaderEmpty(c)) =>
            /\ out'[c] = Append(out[c], Head(PendingSeq(c)))
            /\ PendingSeq(c)' = Tail(PendingSeq(c))

C2_BroadcastOrder ==
    /\ \A c \in Clients :
          IF rd[c].live THEN out[c] \o PendingSeq(c) = Segment(c)
                        ELSE IsPrefix(out[c], Segment(c))
    /\ pushed = blog \o Carry \o inbound

\* C2's case: a Subscription made after the first broadcast that has
\* dequeued one Message and holds another
C2_Witness ==
    \E c \in Clients :
        rd[c].live /\ start[c] >= 1 /\ Len(out[c]) >= 1 /\ Pending(c) >= 1

C3_Bounded == \A c \in Clients : rd[c].live => Undelivered(c) <= BusCap

C3_Step ==
    /\ BusFull => blog' = blog /\ ring' = ring /\ tail' = tail
    /\ room.pc = "blocked" =>
          \/ room' = room
          \/ ~BusFull /\ room'.pc = "loop" /\ blog' = Append(blog, room.msg)
    /\ (BusFull /\ ~BusFull') =>
          \E c \in Clients :
              /\ rd[c].live /\ rd[c].head = Fence
              /\ rd'[c].head # rd[c].head \/ ~rd'[c].live

\* C3 (backpressure): a live Subscription never holds more than BusCap
\* Messages; while one holds BusCap the next broadcast does not complete,
\* nothing is put in the ring and the blocked Message is kept, until that
\* subscriber dequeues a Message or its Subscription is destroyed, and then
\* the blocked Message is the next one broadcast.
C3_Backpressure == []C3_Bounded /\ [][C3_Step]_vars

\* C3's case: the broadcaster is blocked on a Subscription at capacity
C3_Witness ==
    /\ room.pc = "blocked"
    /\ \E c \in Clients : rd[c].live /\ Undelivered(c) = BusCap

\* C4 (join notice): when an Unnamed session reads a frame that begins
\* with "/user", the session takes the trimmed remainder as its name and
\* exactly one "<name> has joined the room." is pushed to the inbound
\* queue for it.
C4_JoinNotice ==
    [][\A c \in Clients, f \in Frames :
          (SessionRead(c, Data(f)) /\ user[c] = "" /\ Naming(f)) =>
              /\ user'[c] = NameOf(Trim(f))
              /\ pushed' = Append(pushed,
                                  Msg(c, nframes[c] + 1, JoinText(NameOf(Trim(f)))))
      ]_vars

\* C5 (leave notice): on a zero-length read a session that has a name
\* pushes exactly one "<name> has left the room." and terminates, and one
\* that has no name pushes nothing and terminates.
C5_LeaveNotice ==
    [][\A c \in Clients :
          SessionRead(c, Eof) =>
              /\ spc'[c] = "done"
              /\ pushed' = IF user[c] # ""
                             THEN Append(pushed, Msg(c, 0, LeftText(user[c])))
                             ELSE pushed
      ]_vars

C6_Step ==
    \A c \in Clients, f \in Frames :
        (SessionRead(c, Data(f)) /\ user[c] = "" /\ ~Naming(f)) =>
            /\ pushed' = pushed
            /\ inbound' = inbound
            /\ user'[c] = ""

C6_NoAnonymous ==
    /\ \A i \in 1..Len(pushed) : ~StartsWith(pushed[i].text, ": ")
    /\ \A c \in Clients : \A i \in 1..Len(out[c]) : ~StartsWith(out[c][i].text, ": ")

\* C6 (unnamed chat text): a frame that is no naming command, read while
\* the session has no name, pushes nothing to the inbound queue and leaves
\* the session without a name; no Message whose text begins ": " (an empty
\* name) is ever pushed or written to a subscriber.
C6_UnnamedChat == []C6_NoAnonymous /\ [][C6_Step]_vars

\* C6's case: a session has read one frame, a chat text, without a name,
\* and nothing was pushed
C6_Witness ==
    \E c \in Clients :
        /\ nframes[c] = 1 /\ user[c] = "" /\ spc[c] = "wait"
        /\ faults = 0 /\ pushed = <<>>

C10_Step ==
    /\ ~running => ~running'
    /\ running' # running => CtrlC
    /\ (CtrlC /\ ~running) => UNCHANGED AllButSignals

\* C10 (idempotent shutdown): the flag starts true; only the signal
\* handler changes it, and only to false, so once false it stays false; a
\* second delivery of the signal changes nothing.
C10_Idempotent == (running = TRUE) /\ [][C10_Step]_vars

\* C10's case: the signal has been delivered twice
C10_Witness == signals = 2 /\ ~running

(***************************************************************************)
(* Shutdown and scheduling of the chat server, under FairSpec and Spec.    *)
(***************************************************************************)
\* C11 (acceptor shutdown): once the running flag is false the acceptor
\* loop of ChatServer::run re-observes it and exits, even if no further
\* connection ever arrives.
C11_AcceptorExits == (~running) ~> (acc.pc = "returned")

\* C12 (broadcaster shutdown): once the running flag is false handle_room
\* terminates, whatever it was doing when the flag cleared, a fan-out
\* towards a Subscription at capacity included.
C12_RoomExits == (~running) ~> (room.pc = "done")

\* handle_client has returned or has ended in a panic, or was never called
SessionGone(c) == spc[c] \in {"none", "done", "panicked"}

\* C13 (session shutdown): once the running flag is false every session
\* handler leaves its loop and returns, a session whose socket is neither
\* readable nor writable included; and a handler that starts when the flag
\* is false returns without reading or writing.
C13_SessionsExit ==
    /\ (~running) ~> (\A c \in Clients : SessionGone(c))
    /\ [][\A c \in Clients :
            (~running /\ spc[c] = "loop" /\ spc'[c] # "loop") =>
                /\ spc'[c] = "done"
                /\ UNCHANGED <<nframes, out, pushed, user>>
        ]_vars

\* C14 (lock scope): the Mutex around the Bus is never held while the
\* broadcaster is blocked in a broadcast towards a full Subscription, so
\* an acceptor that has accepted a connection can then take the lock and
\* register its Subscription.
C14_LockScope ==
    room.pc = "blocked" =>
        /\ busLock = "free"
        /\ acc.pc = "register" => ENABLED Register

\* the workers whose thread ended by a panic
DeadWorkers == {w \in Workers : worker[w].st = "dead"}

\* C15 (malformed frame): when a session reads a frame whose bytes do not
\* decode as text, nothing is pushed to the inbound queue for it, the
\* session keeps its name and its Subscription and goes on to the next
\* wake; the session is not aborted and its worker is not lost.
C15_MalformedFrame ==
    [][\A c \in Clients, f \in Frames :
          (SessionRead(c, Data(f)) /\ ~Utf8Valid(f)) =>
              /\ pushed' = pushed /\ inbound' = inbound
              /\ user'[c] = user[c]
              /\ spc'[c] # "panicked"
              /\ running => (spc'[c] = "wait" /\ rd'[c] = rd[c])
              /\ DeadWorkers' = DeadWorkers
      ]_vars

\* C16 (I/O failure isolation): a read or write error on the socket of one
\* session makes its handler exit, pushing nothing and releasing its
\* Subscription, and changes nothing of any other session (state, name,
\* Subscription), of the broadcaster, or of the set of live workers.
C16_IoIsolation ==
    [][\A c \in Clients :
          (SessionRead(c, ReadErr) \/ SessionWrite(c, FALSE)) =>
              /\ spc'[c] \in {"done", "panicked"}
              /\ ~rd'[c].live
              /\ pushed' = pushed /\ inbound' = inbound
              /\ \A d \in Clients \ {c} :
                    /\ spc'[d] = spc[d] /\ user'[d] = user[d]
                    /\ rd'[d] = rd[d] /\ out'[d] = out[d]
              /\ room' = room /\ ring' = ring /\ tail' = tail
              /\ DeadWorkers' = DeadWorkers
      ]_vars

\* the Messages pushed in this step
NewlyPushed == {pushed'[i] : i \in (Len(pushed) + 1)..Len(pushed')}

\* C17 (session lifecycle): a session moves only along Unnamed -> Named ->
\* Terminated: once it has a name its name never becomes empty again,
\* whatever frames it reads, and once its handler has terminated it pushes
\* no Message and dequeues nothing from its Subscription.
C17_Lifecycle ==
    [][\A c \in Clients :
          /\ user[c] # "" => user'[c] # ""
          /\ SessionOver(c) =>
                /\ spc'[c] = spc[c] /\ rd'[c] = rd[c] /\ out'[c] = out[c]
                /\ \A m \in NewlyPushed : m.src # c
      ]_vars

C18_Inv ==
    \A c \in Clients :
        spc[c] \in {"queued", "loop"} =>
            /\ rd[c].live
            /\ out[c] = <<>>
            /\ PendingSeq(c) = Segment(c)

C18_Step ==
    \A c \in Clients :
        /\ (~rd[c].live /\ rd'[c].live) =>
              /\ Register /\ acc.c = c /\ spc[c] = "none"
              /\ rd'[c].head = tail /\ start'[c] = Len(blog)
        /\ (spc[c] = "none" /\ spc'[c] # "none") =>
              /\ spc'[c] = "queued" /\ rd'[c].live
              /\ queue' = Append(queue, NewJob(ClientJob(c)))
        /\ (rd[c].live /\ ~rd'[c].live) =>
              spc[c] \in {"loop", "wait"} /\ spc'[c] \in {"done", "panicked"}

\* C18 (Subscription at admission), as the code has it: the Subscription
\* of a connection is created by the acceptor, by add_rx after accept has
\* returned and before the session job is submitted to the pool, and is
\* destroyed only when the session handler ends; so every Message
\* broadcast between the creation of the Subscription and the moment the
\* handler starts is pending in it, in broadcast order, when the handler
\* starts.
C18_Admission == []C18_Inv /\ [][C18_Step]_vars

\* C18's case: a handler that has just started finds a Message that was
\* broadcast while its job was queued
C18_Witness ==
    \E c \in Clients : spc[c] = "loop" /\ Pending(c) >= 1 /\ start[c] >= 1

\* C18 as the spec states it, from accept on, implies that no Message is
\* broadcast while a connection is accepted and not yet subscribed.
C18_NoneSinceAccept == [][acc.pc = "register" => blog' = blog]_vars

\* C19 (write readiness): on every wake of a session in which the socket
\* is write-ready, a wake in which it is also read-ready included, the
\* handler tries once to dequeue from its own Subscription and writes the
\* Message it gets to the socket; with nothing pending it writes nothing
\* and changes no session state.
C19_WriteReady ==
    [][\A c \in Clients :
          /\ SessionWrite(c, TRUE) =>
                IF ReaderEmpty(c)
                  THEN out' = out /\ user' = user /\ rd'[c].head = rd[c].head
                  ELSE /\ out'[c] = Append(out[c], ring[rd[c].head])
                       /\ rd'[c].head = (rd[c].head + 1) % BusLen
          /\ \A f \in Frames :
                (/\ SessionRead(c, Data(f))
                 /\ peer[c] = "open" /\ ~ReaderEmpty(c)
                 /\ spc'[c] = "wait") =>
                    /\ out'[c] = Append(out[c], ring[rd[c].head])
                    /\ rd'[c].head = (rd[c].head + 1) % BusLen
      ]_vars

\* the connections whose session job is in the pool's channel
Queued == {c \in Clients : spc[c] = "queued"}

\* C20 (session start): while the server is running, the session job of
\* every accepted connection starts on some worker, whatever the number
\* of sessions already connected: with the connections of a run all made,
\* no job stays queued.
C20_SessionStarts == (running /\ Queued # {}) ~> (~running \/ Queued = {})

(***************************************************************************)
(* The inbound channel, the end of ChatServer::run and the names pushed.   *)
(***************************************************************************)
\* the texts the read of `in` by the session of c hands to message_sender
Sends(c, in) == OnRead(user[c], in).send

\* C21 (inbound push): a push to the inbound queue by a session handler
\* never fails: whenever a handler sends a join, chat or leave Message the
\* broadcaster's Receiver still exists, during shutdown too, so no handler
\* fails holding the lock around the Sender and the lock is never
\* poisoned.
C21_PushNeverFails ==
    /\ []~poisoned
    /\ [][\A c \in Clients, in \in ReadInputs :
            (SessionRead(c, in) /\ Sends(c, in) # <<>>) =>
                /\ rxOpen
                /\ spc'[c] # "panicked"
                /\ Len(pushed') = Len(pushed) + 1
        ]_vars

\* C22 (pool shutdown): the Drop of the pool begins only in states where
\* the running flag is false; and on every path by which ChatServer::run
\* leaves the acceptor loop, an accept error included, the broadcaster job
\* and the session jobs finish, so that the join of the workers returns.
C22_PoolShutdown ==
    /\ [](pool.st # "live" => ~running)
    /\ (acc.pc = "returned") ~> (pool.st = "done")

\* a Message text made with an empty display name
Nameless(text) ==
    \/ text = JoinText("")
    \/ text = LeftText("")
    \/ StartsWith(text, ChatText("", ""))

\* C23 (display names): every Message a session handler pushes to the
\* inbound queue carries a non-empty display name, whatever frames were
\* received, a naming command with nothing after "/user" included.
C23_NamedMessages == \A i \in 1..Len(pushed) : ~Nameless(pushed[i].text)

====
